---- MODULE Spec2Model ----
(***************************************************************************)
(* Rig module reconciliation of master-of-puppets: the Chain module        *)
(* (src/modules/chain.py) and the Corrective module                        *)
(* (src/modules/corrective.py) over a scene graph of joints.               *)
(*                                                                         *)
(* The program is single threaded: every lifecycle method runs to          *)
(* completion, so each method is one action.  A method is computed by an   *)
(* operator over a record S holding the whole rig and scene, which also    *)
(* collects the sequence of scene-graph events the call performs, each     *)
(* with a snapshot of the state right after it (the intermediate states of *)
(* the call).  A raised exception is S.err # NoError: every later step of  *)
(* the call is skipped, as the exception propagates to the caller.         *)
(*                                                                         *)
(* The base class RigModule, the field classes and the Rig are not part of *)
(* the sources; they are modelled from the specification (spec.md 4.1,     *)
(* 4.2, 6, 7).  The scene-graph service deletes exactly the nodes it is    *)
(* given (spec.md 6, delete_nodes); a node whose parent was deleted keeps  *)
(* the deleted node as its recorded parent.                                *)
(***************************************************************************)
EXTENDS Integers, Sequences, FiniteSets, TLC

\* ---------------------------------------------------------------- bounds
NumModules == 3      \* modules a rig may hold
MaxLen == 2          \* largest value written to chain_length / joint_count
MaxNodes == 5        \* joints ever created in the scene
MaxEdits == 2        \* field writes after the modules were created
MaxDepth == 4        \* nesting budget of cascading update() calls
MaxBuilds == 2       \* build() calls made on the rig
MaxSignal == 1       \* largest magnitude of the driving signal, per axis
MaxOffset == 2       \* magnitude of a nonzero offset attribute
MaxLocatorSets == 2  \* sets of locators in the scene when
                     \* create_locators() is called on its own

\* ------------------------------------------------------------- constants
None == 0            \* Python None: an unset reference, "no parent"
MinValue == 1        \* minValue of chain_length and joint_count
DefaultValue == 1    \* defaultValue of chain_length and joint_count
GreaterOrEqual == 3  \* operation of the per-axis condition nodes
Equal == 0           \* operation of a condition node left at its default
EnumY == 0           \* affectedBy, enumName 'Y:Z:': Y
EnumZ == 1           \* affectedBy, enumName 'Y:Z:': Z

Modules == 1..NumModules
\* Joint i made by module m is node (m - 1) * MaxNodes + i: a node name is
\* never used twice, and it does not depend on what other modules did.
\* HostJoint is a joint of the host skeleton, owned by no module, on which
\* the rig is built (spec.md 1; a parent_joint is "possibly owned by
\* another module", spec.md 3).
HostJoint == NumModules * MaxNodes + 1
Nodes == 1..HostJoint
NoError == "ok"

VARIABLES
    kind,          \* kind[m]: "none" (not created), "Chain" or "Corrective"
    length,        \* length[m]: the chain_length / joint_count field
    joints,        \* joints[m]: the owned deform joint list
    parent_joint,  \* parent_joint[m]: the parent_joint field (None if unset)
    exists,        \* the joints present in the scene graph
    parent,        \* parent[n]: scene-graph parent of joint n (None: world)
    made,          \* made[m]: the number of joints module m has created
    edits,         \* the number of field writes so far
    vector_base,   \* vector_base[m]: the vector_base field (None if unset)
    vector_tip,    \* vector_tip[m]: the vector_tip field (None if unset)
    vector_base_loc,           \* the three locator reference fields and
    vector_tip_loc,            \* the node_mult attribute of module m: a
    orig_pose_vector_tip_loc,  \* node of the network, NoNode when unset
    node_mult,
    network,       \* the nodes build() calls have created in the scene
    builds,        \* the number of build() calls so far
    dag,           \* <<child, parent>>: the places the builds gave to
                   \* the nodes of the network
    constraints,   \* <<driver, driven>>: the matrix constraints they made
    value_range,   \* outputY and outputZ of the angle reader (m1_to_p1_range)
    ctl,           \* a control of a built Corrective: its offsetPositive,
                   \* offsetNegative and affectedBy attributes, and the
                   \* translate the offset network drives
    last           \* the last call that changed the rig or the scene, or
                   \* the last rejected field write: its kind, its error,
                   \* the kinds of its events and the update() calls entered

vars == <<kind, length, joints, parent_joint, exists, parent, made, edits,
          vector_base, vector_tip, vector_base_loc, vector_tip_loc,
          orig_pose_vector_tip_loc, node_mult, network, builds, dag,
          constraints, value_range, ctl, last>>

\* ------------------------------------------------------- sequence helpers
Last(s) == s[Len(s)]

SeqSet(s) == {s[i] : i \in 1..Len(s)}

\* Python s[:n] for 0 <= n <= len(s)
Prefix(s, n) == SubSeq(s, 1, n)

\* Python s[d:] for -len(s) <= d < 0: the last |d| entries
Suffix(s, d) == SubSeq(s, Len(s) + d + 1, Len(s))

\* ------------------------------------------------------ the state record
\* The part of the state a snapshot keeps.
Snap(S) ==
    [joints |-> S.joints, pj |-> S.pj, exists |-> S.exists,
     parent |-> S.parent, length |-> S.length]

\* Record an event with the state right after it.  type is "call" or
\* "return" (of m.update()), "create" (joint node of module m, under to),
\* "reparent" (joint node of module m, to to), "set_parent_joint" (of module
\* m, to to) or "delete" (the joints nodes, by module m).
Emit(S, type, m, node, nodes, to) ==
    [S EXCEPT !.trace = Append(@, [type |-> type, m |-> m, node |-> node,
                                   nodes |-> nodes, to |-> to,
                                   st |-> Snap(S)])]

Raise(S, e) == [S EXCEPT !.err = e]

Failed(S) == S.err # NoError

\* Nothing more of the call is computed: it raised, or it needs more joints
\* than the model may create (no such call is taken as a step).
Halted(S) == Failed(S) \/ S.overflow

\* ------------------------------------------- scene-graph service (cmds)
RECURSIVE AncestorsFrom(_, _, _)
\* n and the nodes above it, following parents while they are in the scene.
AncestorsFrom(S, n, fuel) ==
    IF n = None \/ n \notin S.exists \/ fuel = 0 THEN {}
    ELSE {n} \cup AncestorsFrom(S, S.parent[n], fuel - 1)

\* cmds.parent(child, newParent): fails when a node is missing or when the
\* new parent is the child or one of its descendants.
cmds_parent(S, m, child, newParent) ==
    IF Halted(S) THEN S
    ELSE IF newParent = None \/ newParent \notin S.exists
            \/ child \notin S.exists
    THEN Raise(S, "NoObjectMatchesName")
    ELSE IF child \in AncestorsFrom(S, newParent, MaxNodes + 1)
    THEN Raise(S, "ParentCycle")
    ELSE Emit([S EXCEPT !.parent[child] = newParent],
              "reparent", m, child, {}, newParent)

\* cmds.listRelatives(joint, parent=True)[0]: the parent of a joint; the
\* service answers None for a joint under the world, and None[0] raises.
HasParent(S, joint) == S.parent[joint] # None

\* The nodes of the scene at or below one of the nodes.
Descendants(S, nodes) ==
    {n \in S.exists : AncestorsFrom(S, n, MaxNodes + 1) \cap nodes # {}}

\* cmds.delete(nodes): removes the nodes from the scene, and with them every
\* node below them in the scene graph, whichever module owns it; a
\* reference list field loses the deleted nodes (spec.md 4.3: deleted "from
\* both the scene graph and the owned list"), a single reference field
\* keeps the stale reference (spec.md 4.3: "left dangling").  Deleting a
\* missing node fails.  The event names the nodes the call was given.
cmds_delete(S, m, nodes) ==
    IF Halted(S) THEN S
    ELSE IF \E i \in 1..Len(nodes) : nodes[i] \notin S.exists
    THEN Raise(S, "NoObjectMatchesName")
    ELSE LET gone == Descendants(S, SeqSet(nodes))
             S1 == [S EXCEPT
                      !.exists = @ \ gone,
                      !.parent = [n \in Nodes |->
                                   IF n \in gone THEN None ELSE S.parent[n]],
                      !.joints = [k \in Modules |->
                                   SelectSeq(S.joints[k],
                                             LAMBDA j : j \notin gone)]]
         IN Emit(S1, "delete", m, None, SeqSet(nodes), None)

\* ------------------------------------------------- RigModule (base class)
RECURSIVE SumTo(_, _)
SumTo(f, n) == IF n = 0 THEN 0 ELSE f[n] + SumTo(f, n - 1)

\* The number of joints created so far in the scene.
MadeInAll(S) == SumTo(S.made, NumModules)

\* RigModule._add_deform_joint(parent): one new joint, under `parent` or,
\* when parent is omitted, under the module's parent_joint (under the world
\* when that is unset too); appended to the owned list.
BaseAddDeformJoint(S, m, p) ==
    IF Halted(S) THEN S
    ELSE IF MadeInAll(S) >= MaxNodes THEN [S EXCEPT !.overflow = TRUE]
    ELSE LET new == (m - 1) * MaxNodes + S.made[m] + 1
             to == IF p # None THEN p ELSE S.pj[m]
         IN IF to # None /\ to \notin S.exists
            THEN Raise(S, "NoObjectMatchesName")
            ELSE Emit([S EXCEPT !.exists = @ \cup {new},
                                !.parent[new] = to,
                                !.joints[m] = Append(@, new),
                                !.made[m] = @ + 1],
                      "create", m, new, {}, to)

\* RigModule.update_parent_joint(): the first owned joint is moved under
\* parent_joint when the scene disagrees; a parent_joint that is no longer
\* in the scene is a StructuralInconsistencyError.
BaseUpdateParentJoint(S, m) ==
    IF Halted(S) \/ S.joints[m] = <<>> THEN S
    ELSE LET first == S.joints[m][1]
             expected == S.pj[m]
         IN IF expected = None
            THEN IF S.parent[first] = None THEN S
                 ELSE Emit([S EXCEPT !.parent[first] = None],
                           "reparent", m, first, {}, None)
            ELSE IF expected \notin S.exists
            THEN Raise(S, "StructuralInconsistencyError")
            ELSE IF S.parent[first] # expected
            THEN cmds_parent(S, m, first, expected)
            ELSE S

\* -------------------------------------------------------------- Corrective
RECURSIVE CorrectiveReparentLoop(_, _, _, _)
\* corrective.py 389-394: for joint in self.deform_joints.get(): ...
CorrectiveReparentLoop(S, m, js, i) ==
    IF Halted(S) \/ i > Len(js) THEN S
    ELSE LET joint == js[i]
             expected_parent == S.pj[m]
         IN IF ~HasParent(S, joint) THEN Raise(S, "TypeError")
            ELSE LET actual_parent == S.parent[joint]
                     S1 == IF expected_parent # actual_parent
                           THEN cmds_parent(S, m, joint, expected_parent)
                           ELSE S
                 IN CorrectiveReparentLoop(S1, m, js, i + 1)

\* A variant that repairs the first joint only, as the base class does.
CorrectiveUpdateParentJointFirstOnly(S, m) == BaseUpdateParentJoint(S, m)

\* Corrective.update_parent_joint()
CorrectiveUpdateParentJoint(S, m) ==
    LET S1 == BaseUpdateParentJoint(S, m)
    IN IF Halted(S1) THEN S1
       ELSE CorrectiveReparentLoop(S1, m, S1.joints[m], 1)

\* self.update_parent_joint(), dispatched on the class of the module
UpdateParentJointOf(S, m) ==
    IF S.kind[m] = "Corrective" THEN CorrectiveUpdateParentJoint(S, m)
    ELSE BaseUpdateParentJoint(S, m)

\* RigModule.update(): repairs the structure under parent_joint.
BaseUpdate(S, m) == UpdateParentJointOf(S, m)

\* -------------------------------------------------------------------- Chain
\* Chain._add_deform_joint(): child of the last owned joint, if any
ChainAddDeformJoint(S, m) ==
    LET deform_joints == S.joints[m]
        p == IF deform_joints # <<>> THEN Last(deform_joints) ELSE None
    IN BaseAddDeformJoint(S, m, p)

RECURSIVE ChainGrow(_, _, _)
\* chain.py 63-65: for index in range(diff): add a joint.  The translateX
\* offset given to the new joint moves it and changes no structure; joint
\* transforms are not part of the state.
ChainGrow(S, m, n) ==
    IF n = 0 \/ Halted(S) THEN S
    ELSE ChainGrow(ChainAddDeformJoint(S, m), m, n - 1)

\* chain.py 68: joints[diff:]
ChainJointsToDelete(js, diff) == Suffix(js, diff)

\* Chain._update_chain_length()
ChainUpdateChainLength(S, m) ==
    LET deform_joints == S.joints[m]
        diff == S.length[m] - Len(deform_joints)
    IN IF diff > 0 THEN ChainGrow(S, m, diff)
       ELSE IF diff < 0
       THEN cmds_delete(S, m, ChainJointsToDelete(deform_joints, diff))
       ELSE S

\* ------------------------------------------------------- Corrective.update
RECURSIVE CorrectiveGrowChained(_, _, _)
\* A variant that adds the new joints as Chain does, each under the last.
CorrectiveGrowChained(S, m, n) ==
    IF n = 0 \/ Halted(S) THEN S
    ELSE CorrectiveGrowChained(ChainAddDeformJoint(S, m), m, n - 1)

RECURSIVE CorrectiveGrow(_, _, _)
\* corrective.py 51-52
CorrectiveGrow(S, m, n) ==
    IF n = 0 \/ Halted(S) THEN S
    ELSE CorrectiveGrow(BaseAddDeformJoint(S, m, None), m, n - 1)

\* A variant that deletes from the front of the list.
CorrectiveJointsToDeleteFront(js, diff) == Prefix(js, 0 - diff)

\* corrective.py 55: joints[diff:]
CorrectiveJointsToDelete(js, diff) == Suffix(js, diff)

\* A variant that keeps no joint.
CorrectiveJointsToKeepNone(js, diff) == <<>>

\* corrective.py 56: joints[:len(joints) + diff]
CorrectiveJointsToKeep(js, diff) == Prefix(js, Len(js) + diff)

\* A variant that always redirects to the module's own parent_joint.
NewParentJointOwn(S, m, joints_to_keep) == S.pj[m]

\* corrective.py 60-63: where a dependent is redirected to
NewParentJoint(S, m, joints_to_keep) ==
    IF joints_to_keep # <<>> THEN Last(joints_to_keep) ELSE S.pj[m]

\* A variant that also takes the owner of the joints for a dependent.
IsDependentOrOwner(S, k, joints_to_delete) ==
    \/ S.pj[k] \in SeqSet(joints_to_delete)
    \/ SeqSet(S.joints[k]) \cap SeqSet(joints_to_delete) # {}

\* A variant that takes every module under a joint for a dependent.
IsDependentAny(S, k, joints_to_delete) == S.pj[k] \in S.exists

\* corrective.py 59: the test that makes a module a dependent
IsDependent(S, k, joints_to_delete) ==
    S.pj[k] \in SeqSet(joints_to_delete)

\* The modules of self.rig.rig_modules, in order of creation.
RigModules(S) == {k \in Modules : S.kind[k] # "none"}

RECURSIVE ModuleUpdate(_, _, _)
RECURSIVE CascadeLoop(_, _, _, _, _, _)

\* corrective.py 58-65: for module in self.rig.rig_modules: ...
CascadeLoop(S, m, k, joints_to_delete, joints_to_keep, d) ==
    IF Halted(S) \/ k > NumModules THEN S
    ELSE IF k \in RigModules(S) /\ IsDependent(S, k, joints_to_delete)
    THEN LET new_parent_joint == NewParentJoint(S, m, joints_to_keep)
             S1 == Emit([S EXCEPT !.pj[k] = new_parent_joint],
                        "set_parent_joint", k, None, {}, new_parent_joint)
             S2 == ModuleUpdate(S1, k, d - 1)
         IN CascadeLoop(S2, m, k + 1, joints_to_delete, joints_to_keep, d)
    ELSE CascadeLoop(S, m, k + 1, joints_to_delete, joints_to_keep, d)

\* A variant of Chain.update() that redirects and updates the dependents of
\* the joints it deletes, as Corrective.update() does.
ChainUpdateCascading(S, m) ==
    LET js == S.joints[m]
        diff == S.length[m] - Len(js)
    IN IF diff < 0
       THEN cmds_delete(CascadeLoop(S, m, 1, Suffix(js, diff),
                                    Prefix(js, Len(js) + diff), MaxDepth),
                        m, Suffix(js, diff))
       ELSE ChainUpdateChainLength(S, m)

\* Chain.update()
ChainUpdate(S, m) == ChainUpdateChainLength(S, m)

\* Corrective.update()
CorrectiveUpdate(S, m, d) ==
    LET S0 == BaseUpdate(S, m)
        diff == S0.length[m] - Len(S0.joints[m])
    IN IF Halted(S0) THEN S0
       ELSE IF diff > 0 THEN CorrectiveGrow(S0, m, diff)
       ELSE IF diff < 0
       THEN LET js == S0.joints[m]
                joints_to_delete == CorrectiveJointsToDelete(js, diff)
                joints_to_keep == CorrectiveJointsToKeep(js, diff)
                S1 == CascadeLoop(S0, m, 1, joints_to_delete,
                                  joints_to_keep, d)
            IN cmds_delete(S1, m, joints_to_delete)
       ELSE S0

\* module.update(), dispatched on the class of the module.  The events
\* "call" and "return" bracket the call; d is the nesting budget left.
ModuleUpdate(S, m, d) ==
    IF Halted(S) THEN S
    ELSE IF d = 0 THEN Raise(S, "RecursionError")
    ELSE LET S0 == Emit(S, "call", m, None, {}, None)
             S1 == IF S.kind[m] = "Corrective"
                   THEN CorrectiveUpdate(S0, m, d)
                   ELSE ChainUpdate(S0, m)
         IN IF Halted(S1) THEN S1
            ELSE Emit(S1, "return", m, None, {}, None)

\* initialize(): chain.py 16-19, corrective.py 42-45
RECURSIVE InitializeLoop(_, _, _)
InitializeLoop(S, m, n) ==
    IF n = 0 \/ Halted(S) THEN S
    ELSE InitializeLoop(IF S.kind[m] = "Chain"
                        THEN ChainAddDeformJoint(S, m)
                        ELSE BaseAddDeformJoint(S, m, None), m, n - 1)

Initialize(S, m) == InitializeLoop(S, m, S.length[m])

\* ------------------------------------------------------- Corrective.build
\* A node of the network the calls create: its role, the module, the joint
\* it is made for (None when for none), the number of build() calls made
\* when it was created, and the number of nodes of the same role, module,
\* joint and build number that were in the scene already (the scene gives
\* every new node a name of its own: a taken name gets the next number).
NoNode == [role |-> "none", m |-> None, of |-> None, build |-> 0, copy |-> 0]

\* The nodes of the scene a new node would share its name with.
SameName(S, m, role, of) ==
    {x \in S.network : /\ x.role = role
                       /\ x.m = m
                       /\ x.of = of
                       /\ x.build = S.builds}

\* self.add_node(...): the node the next add_node of this role creates
NewNode(S, m, role, of) ==
    [role |-> role, m |-> m, of |-> of, build |-> S.builds,
     copy |-> Cardinality(SameName(S, m, role, of))]

AddNode(S, m, role, of) ==
    IF Halted(S) THEN S
    ELSE [S EXCEPT !.network = @ \cup {NewNode(S, m, role, of)}]

\* self.controls_group.get(): the controls container of module m
ControlsGroup(m) ==
    [role |-> "controls_group", m |-> m, of |-> None, build |-> 0, copy |-> 0]

\* self.extras_group.get(): the extras container of module m
ExtrasGroup(m) ==
    [role |-> "extras_group", m |-> m, of |-> None, build |-> 0, copy |-> 0]

\* The parent a build gave to a node (NoNode: none).
DagParent(d, child) ==
    IF \E e \in d : e[1] = child
    THEN (CHOOSE e \in d : e[1] = child)[2]
    ELSE NoNode

\* cmds.parent(child, newParent) on nodes of the network
ParentNode(S, child, newParent) ==
    IF Halted(S) THEN S
    ELSE [S EXCEPT !.dag = {e \in @ : e[1] # child}
                              \cup {<<child, newParent>>}]

\* icarus.dag.add_parent_group(node, suffix): a new transform takes the
\* place of the node under its parent, and the node goes under it.
add_parent_group(S, m, node, suffix) ==
    LET group == NewNode(S, m, suffix, node.of)
        S1 == AddNode(S, m, suffix, node.of)
        S2 == ParentNode(S1, group, DagParent(S.dag, node))
    IN ParentNode(S2, node, group)

\* A joint of the scene as an end of a constraint.
JointNode(j) ==
    [role |-> "joint", m |-> None, of |-> j, build |-> 0, copy |-> 0]

\* icarus.dag.matrix_constraint(driver, driven)
matrix_constraint(S, driver, driven) ==
    IF Halted(S) THEN S
    ELSE [S EXCEPT !.constraints = @ \cup {<<driver, driven>>}]

\* The record of a build() call: the steps entered, and the reads and
\* writes of the references the steps pass to each other.
Enter(S, step, of) ==
    IF Halted(S) THEN S
    ELSE [S EXCEPT !.log = Append(@, [kind |-> "step", step |-> step,
                                      field |-> "none", of |-> of,
                                      from |-> "none", unset |-> FALSE])]

\* The step of this call that last wrote the field ("none": no step did).
WriterOf(log, field) ==
    LET W == {i \in 1..Len(log) :
                 log[i].kind = "write" /\ log[i].field = field}
    IN IF W = {} THEN "none"
       ELSE log[CHOOSE i \in W : \A k \in W : k <= i].step

ReadRef(S, step, field, unset) ==
    IF Halted(S) THEN S
    ELSE [S EXCEPT !.log = Append(@, [kind |-> "read", step |-> step,
                                      field |-> field, of |-> None,
                                      from |-> WriterOf(S.log, field),
                                      unset |-> unset])]

WriteRef(S, step, field) ==
    IF Halted(S) THEN S
    ELSE [S EXCEPT !.log = Append(@, [kind |-> "write", step |-> step,
                                      field |-> field, of |-> None,
                                      from |-> "none", unset |-> FALSE])]

\* A variant that sets vector_base to parent_joint in every build.
EnsureVectorBaseAlways(S, m) ==
    WriteRef([S EXCEPT !.vector_base[m] = S.pj[m]],
             "ensure-vector-base", "vector_base")

\* corrective.py 70-71: if not self.vector_base.get(): set to parent_joint
EnsureVectorBase(S, m) ==
    IF S.vector_base[m] = None
    THEN WriteRef([S EXCEPT !.vector_base[m] = S.pj[m]],
                  "ensure-vector-base", "vector_base")
    ELSE S

\* self.<field>.set(loc) of create_locators
StoreLocator(S, m, field, loc) ==
    IF Halted(S) THEN S
    ELSE LET S1 == IF field = "vector_base_loc"
                   THEN [S EXCEPT !.vector_base_loc[m] = loc]
                   ELSE IF field = "vector_tip_loc"
                   THEN [S EXCEPT !.vector_tip_loc[m] = loc]
                   ELSE [S EXCEPT !.orig_pose_vector_tip_loc[m] = loc]
         IN WriteRef(S1, "create-locators", field)

\* corrective.py 204-213: the tip locator follows the vector_tip joint when
\* the field is set (the snap needs the joint in the scene), and stands one
\* unit along X of the vector_base locator when it is not.
PlaceVectorTip(S, m, group, base, tip) ==
    LET vt == S.vector_tip[m]
        S1 == ReadRef(S, "create-locators", "vector_tip", vt = None)
    IN IF Halted(S1) THEN S1
       ELSE IF vt # None
       THEN LET P == ParentNode(S1, tip, group)
            IN IF vt \notin S.exists THEN Raise(P, "NoObjectMatchesName")
               ELSE matrix_constraint(P, JointNode(vt), tip)
       ELSE matrix_constraint(
              ParentNode(ParentNode(S1, tip, base), tip, group), base, tip)

\* Corrective.create_locators().  The local space is snapped and pinned to
\* vector_base (lines 168-175): an unset vector_base stops the call there,
\* at the latest in self.vector_base.get() + '_vectorBase' (line 183), and
\* one that names a joint no longer in the scene is an error of the scene
\* graph.
create_locators(S, m) ==
    LET vb == S.vector_base[m]
        group == NewNode(S, m, "vectorsLocalSpace", None)
        base == NewNode(S, m, "vector_base", vb)
        tip == NewNode(S, m, "vector_tip", vb)
        orig == NewNode(S, m, "orig_pose_vector_tip", vb)
        S1 == ParentNode(AddNode(S, m, "vectorsLocalSpace", None),
                         group, ExtrasGroup(m))
        S2 == ReadRef(S1, "create-locators", "vector_base", vb = None)
        S3 == IF Halted(S2) THEN S2
              ELSE IF vb = None THEN Raise(S2, "TypeError")
              ELSE IF vb \notin S.exists
              THEN Raise(S2, "NoObjectMatchesName")
              ELSE S2
        S4 == StoreLocator(
                ParentNode(AddNode(S3, m, "vector_base", vb), base, group),
                m, "vector_base_loc", base)
        S5 == PlaceVectorTip(AddNode(S4, m, "vector_tip", vb),
                             m, group, base, tip)
        S6 == StoreLocator(S5, m, "vector_tip_loc", tip)
        S7 == ParentNode(
                ParentNode(AddNode(S6, m, "orig_pose_vector_tip", vb),
                           orig, base),
                orig, group)
    IN StoreLocator(S7, m, "orig_pose_vector_tip_loc", orig)

\* self.<field>.get() + '.translate' of a locator reference: an unset
\* reference is None, and None + '.translate' is a TypeError.
ReadLocator(S, step, field, loc) ==
    IF Halted(S) THEN S
    ELSE IF loc = NoNode
    THEN Raise(ReadRef(S, step, field, TRUE), "TypeError")
    ELSE ReadRef(S, step, field, FALSE)

\* Corrective._build_angle_reader()
BuildAngleReader(S, m) ==
    LET step == "build-angle-reader"
        S1 == AddNode(AddNode(S, m, "source", None), m, "target", None)
        S2 == ReadLocator(S1, step, "vector_tip_loc", S.vector_tip_loc[m])
        S3 == ReadLocator(S2, step, "vector_base_loc", S.vector_base_loc[m])
        S4 == ReadLocator(S3, step, "orig_pose_vector_tip_loc",
                          S.orig_pose_vector_tip_loc[m])
        S5 == ReadLocator(S4, step, "vector_base_loc", S.vector_base_loc[m])
        S6 == AddNode(S5, m, "angleBetween", None)
        mult == NewNode(S6, m, "angle_times_axis", None)
        S7 == AddNode(S6, m, "angle_times_axis", None)
        S8 == IF Halted(S7) THEN S7
              ELSE WriteRef([S7 EXCEPT !.node_mult[m] = mult],
                            step, "node_mult")
    IN AddNode(S8, m, "m1_to_p1_range", None)

\* Corrective._add_control(joint): self.add_control(joint) returns the
\* control under its parent group; the group is snapped to the joint, which
\* has to be in the scene, and put under the controls container; the control
\* gets an offset group and drives the joint.  self.node_mult is an
\* attribute only _build_angle_reader() creates: reading it before (line
\* 332) is an AttributeError.
AddControl(S, m, joint) ==
    LET c == NewNode(S, m, "ctl", joint)
        g == NewNode(S, m, "add_control.parent_group", joint)
        S1 == ParentNode(
                AddNode(AddNode(S, m, "add_control.parent_group", joint),
                        m, "ctl", joint),
                c, g)
        S2 == IF Halted(S1) THEN S1
              ELSE IF joint \notin S.exists
              THEN Raise(S1, "NoObjectMatchesName")
              ELSE ParentNode(S1, g, ControlsGroup(m))
        S3 == add_parent_group(S2, m, c, "offset")
        S4 == matrix_constraint(S3, c, JointNode(joint))
        unset == S.node_mult[m] = NoNode
        S5 == ReadRef(S4, "create-control", "node_mult", unset)
    IN IF Halted(S5) \/ ~unset THEN S5 ELSE Raise(S5, "AttributeError")

\* corrective.py 79-138: the nodes of one angleAxis of one joint
WireAxis(S, m, joint, angleAxis) ==
    AddNode(
      AddNode(
        AddNode(
          AddNode(S, m, IF angleAxis = "Y" THEN "positive_offset_Y"
                        ELSE "positive_offset_Z", joint),
          m, IF angleAxis = "Y" THEN "negative_offset_Y"
             ELSE "negative_offset_Z", joint),
        m, IF angleAxis = "Y" THEN "value_opposite_Y"
           ELSE "value_opposite_Z", joint),
      m, IF angleAxis = "Y" THEN "condition_Y" ELSE "condition_Z", joint)

\* corrective.py 77-159: the offset network of one joint
WireOffsets(S, m, joint) ==
    AddNode(WireAxis(WireAxis(S, m, joint, "Y"), m, joint, "Z"),
            m, "affected_by", joint)

\* self.driving_joints: the joints that bear a control, every owned joint
DrivingJoints(S, m) == S.joints[m]

RECURSIVE BuildJoints(_, _, _, _)
\* corrective.py 75-159: for joint in self.driving_joints: ...
BuildJoints(S, m, js, i) ==
    IF Halted(S) \/ i > Len(js) THEN S
    ELSE LET S1 == AddControl(Enter(S, "create-control", js[i]), m, js[i])
             S2 == WireOffsets(Enter(S1, "wire-offsets", js[i]), m, js[i])
         IN BuildJoints(S2, m, js, i + 1)

\* A variant that builds the angle reader before the locators.
CorrectiveBuildReaderFirst(S, m) ==
    LET S0 == Enter([S EXCEPT !.builds = @ + 1], "ensure-vector-base", None)
        S1 == EnsureVectorBase(S0, m)
        S2 == BuildAngleReader(Enter(S1, "build-angle-reader", None), m)
        S3 == create_locators(Enter(S2, "create-locators", None), m)
    IN BuildJoints(S3, m, DrivingJoints(S3, m), 1)

\* Corrective.build()
CorrectiveBuild(S, m) ==
    LET S0 == Enter([S EXCEPT !.builds = @ + 1], "ensure-vector-base", None)
        S1 == EnsureVectorBase(S0, m)
        S2 == create_locators(Enter(S1, "create-locators", None), m)
        S3 == BuildAngleReader(Enter(S2, "build-angle-reader", None), m)
    IN BuildJoints(S3, m, DrivingJoints(S3, m), 1)

\* ------------------------------------------------------------ Chain.build
RECURSIVE ChainBuildLoopFlat(_, _, _, _, _)
\* A variant that puts every control under the first parent.
ChainBuildLoopFlat(S, m, js, i, under) ==
    IF Halted(S) \/ i > Len(js) THEN S
    ELSE LET joint == js[i]
             c == NewNode(S, m, "ctl", joint)
             S1 == AddNode(Enter(S, "create-control", joint), m, "ctl", joint)
             S2 == ParentNode(S1, c, under)
             S3 == add_parent_group(S2, m, c, "buffer")
             S4 == matrix_constraint(S3, c, JointNode(joint))
         IN ChainBuildLoopFlat(S4, m, js, i + 1, under)

RECURSIVE ChainBuildLoop(_, _, _, _, _)
\* chain.py 26-42: for joint in self.driving_joints: ...; `under` is the
\* variable parent of the loop.  The circle is snapped to the joint, which
\* has to be in the scene.
ChainBuildLoop(S, m, js, i, under) ==
    IF Halted(S) \/ i > Len(js) THEN S
    ELSE LET joint == js[i]
             c == NewNode(S, m, "ctl", joint)
             S1 == AddNode(Enter(S, "create-control", joint), m, "ctl", joint)
             S2 == IF joint \notin S.exists
                   THEN Raise(S1, "NoObjectMatchesName")
                   ELSE ParentNode(S1, c, under)
             S3 == add_parent_group(S2, m, c, "buffer")
             S4 == matrix_constraint(S3, c, JointNode(joint))
         IN ChainBuildLoop(S4, m, js, i + 1, c)

\* Chain.build()
ChainBuild(S, m) ==
    ChainBuildLoop([S EXCEPT !.builds = @ + 1], m, DrivingJoints(S, m), 1,
                   ControlsGroup(m))

\* module.build(), dispatched on the class of the module
ModuleBuild(S, m) ==
    IF S.kind[m] = "Corrective" THEN CorrectiveBuild(S, m)
    ELSE ChainBuild(S, m)

\* ------------------------------------------- the offset network at work
\* multiplyDivide node (operation multiply): output = input1 * input2, on
\* each of X, Y, Z
multiplyDivide(input1, input2) ==
    <<input1[1] * input2[1], input1[2] * input2[2], input1[3] * input2[3]>>

\* multDoubleLinear node: output = input1 * input2
multDoubleLinear(input1, input2) == input1 * input2

\* condition node: outColor is colorIfTrue when firstTerm <operation>
\* secondTerm, colorIfFalse otherwise
condition(operation, firstTerm, secondTerm, colorIfTrue, colorIfFalse) ==
    IF \/ operation = GreaterOrEqual /\ firstTerm >= secondTerm
       \/ operation = Equal /\ firstTerm = secondTerm
    THEN colorIfTrue
    ELSE colorIfFalse

\* A variant that picks the positive offset under zero.
AxisConditionInverted(vr, c, angleAxis) ==
    LET v == vr[angleAxis]
    IN condition(GreaterOrEqual, 0, v,
                 multiplyDivide(<<v, v, v>>, c.offsetPositive),
                 multiplyDivide(<<0 - v, 0 - v, 0 - v>>, c.offsetNegative))

\* corrective.py 79-138: the nodes of one angleAxis; secondTerm of the
\* condition is left at 0
AxisCondition(vr, c, angleAxis) ==
    LET v == vr[angleAxis]
        value_opposite == multDoubleLinear(v, -1)
        positive_offset == multiplyDivide(<<v, v, v>>, c.offsetPositive)
        negative_offset ==
            multiplyDivide(<<value_opposite, value_opposite, value_opposite>>,
                           c.offsetNegative)
    IN condition(GreaterOrEqual, v, 0, positive_offset, negative_offset)

\* A variant with the two inputs of the last condition exchanged.
AffectedByCondSwapped(vr, c) ==
    condition(Equal, c.affectedBy, 0,
              AxisCondition(vr, c, "Z"), AxisCondition(vr, c, "Y"))

\* corrective.py 139-159: affected_by_cond, whose outColor drives
\* ctl.translate; condition_nodes[0] is the one of Y, condition_nodes[1]
\* the one of Z
AffectedByCond(vr, c) ==
    condition(Equal, c.affectedBy, 0,
              AxisCondition(vr, c, "Y"), AxisCondition(vr, c, "Z"))

\* The scene evaluates the network: translate follows its inputs.
Evaluate(vr, c) == [c EXCEPT !.translate = AffectedByCond(vr, c)]

\* ------------------------------------------------------------ field writes
\* IntField.set(value) with hasMinValue: a value under minValue is a
\* ValidationError and nothing is stored.
IntFieldAccepts(v) == v >= MinValue

\* chain_length.set(v) / joint_count.set(v) of module m
LengthSet(S, m, v) ==
    IF IntFieldAccepts(v) THEN [S EXCEPT !.length[m] = v]
    ELSE Raise(S, "ValidationError")

\* ------------------------------------------------------------ the actions
\* The state as the record the methods work on.
Cur ==
    [kind |-> kind, length |-> length, joints |-> joints,
     pj |-> parent_joint, exists |-> exists, parent |-> parent,
     made |-> made,
     vector_base |-> vector_base, vector_tip |-> vector_tip,
     vector_base_loc |-> vector_base_loc,
     vector_tip_loc |-> vector_tip_loc,
     orig_pose_vector_tip_loc |-> orig_pose_vector_tip_loc,
     node_mult |-> node_mult, network |-> network, builds |-> builds,
     dag |-> dag, constraints |-> constraints,
     trace |-> <<>>, log |-> <<>>, err |-> NoError, overflow |-> FALSE]

\* The kinds of events of a call; "cascade" marks a nested update().
EventTypes(trace) ==
    ({trace[i].type : i \in 1..Len(trace)} \ {"call", "return"})
    \cup (IF \E i \in 2..Len(trace) : trace[i].type = "call"
          THEN {"cascade"} ELSE {})

\* The number of update() calls entered, the outer one included.
Calls(trace) == Cardinality({i \in 1..Len(trace) : trace[i].type = "call"})

\* The steps a build() entered and the references it wrote.
BuildEvents(log) ==
    {log[i].step : i \in {x \in 1..Len(log) : log[x].kind = "step"}}
    \cup {log[i].field : i \in {x \in 1..Len(log) : log[x].kind = "write"}}

\* The state a call leaves, with the record of the call.
Install(S, op, m) ==
    /\ ~S.overflow
    /\ kind' = S.kind
    /\ length' = S.length
    /\ joints' = S.joints
    /\ parent_joint' = S.pj
    /\ exists' = S.exists
    /\ parent' = S.parent
    /\ made' = S.made
    /\ vector_base' = S.vector_base
    /\ vector_tip' = S.vector_tip
    /\ vector_base_loc' = S.vector_base_loc
    /\ vector_tip_loc' = S.vector_tip_loc
    /\ orig_pose_vector_tip_loc' = S.orig_pose_vector_tip_loc
    /\ node_mult' = S.node_mult
    /\ network' = S.network
    /\ builds' = S.builds
    /\ dag' = S.dag
    /\ constraints' = S.constraints
    /\ UNCHANGED <<value_range, ctl>>
    /\ last' = IF op \in {"update", "update_parent_joint"}
                  /\ EventTypes(S.trace) = {}
               THEN last
               ELSE [op |-> op, m |-> m, err |-> S.err,
                     events |-> IF op \in {"build", "create_locators"}
                                THEN BuildEvents(S.log)
                                ELSE EventTypes(S.trace),
                     calls |-> Calls(S.trace)]

Init ==
    /\ kind = [m \in Modules |-> "none"]
    /\ length = [m \in Modules |-> DefaultValue]
    /\ joints = [m \in Modules |-> <<>>]
    /\ parent_joint = [m \in Modules |-> None]
    /\ exists = {HostJoint}
    /\ parent = [n \in Nodes |-> None]
    /\ made = [m \in Modules |-> 0]
    /\ edits = 0
    /\ vector_base = [m \in Modules |-> None]
    /\ vector_tip = [m \in Modules |-> None]
    /\ vector_base_loc = [m \in Modules |-> NoNode]
    /\ vector_tip_loc = [m \in Modules |-> NoNode]
    /\ orig_pose_vector_tip_loc = [m \in Modules |-> NoNode]
    /\ node_mult = [m \in Modules |-> NoNode]
    /\ network = {}
    /\ builds = 0
    /\ dag = {}
    /\ constraints = {}
    /\ value_range = [Y |-> 0, Z |-> 0]
    /\ ctl = [offsetPositive |-> <<0, 0, 0>>, offsetNegative |-> <<0, 0, 0>>,
              affectedBy |-> EnumY, translate |-> <<0, 0, 0>>]
    /\ last = [op |-> "init", m |-> None, err |-> NoError, events |-> {},
               calls |-> 0]

\* The rig creates module m of class k with parent joint p and length
\* field n, and calls its initialize().
AddModule(m, k, p, n) ==
    /\ kind[m] = "none"
    /\ \A i \in 1..(m - 1) : kind[i] # "none"
    /\ p \in exists \cup {None}
    /\ p = None => k = "Corrective"
    /\ IntFieldAccepts(n)
    /\ Install(Initialize([Cur EXCEPT !.kind[m] = k, !.pj[m] = p,
                                      !.length[m] = n], m), "edit", None)
    /\ UNCHANGED edits

\* chain_length.set(v) / joint_count.set(v)
SetLength(m, v) ==
    /\ kind[m] # "none"
    /\ edits < MaxEdits
    /\ edits' = edits + 1
    /\ v # length[m]
    /\ Install(LengthSet(Cur, m, v),
               IF Failed(LengthSet(Cur, m, v)) THEN "set_length" ELSE "edit",
               IF Failed(LengthSet(Cur, m, v)) THEN m ELSE None)

\* The module that owns joint j (None when no module does).
Owner(S, j) ==
    IF \E k \in Modules : j \in SeqSet(S.joints[k])
    THEN CHOOSE k \in Modules : j \in SeqSet(S.joints[k])
    ELSE None

RECURSIVE DependsOn(_, _, _, _)
\* Module k is m or hangs, through parent_joint references, under a joint
\* of m.
DependsOn(S, k, m, fuel) ==
    IF k = None \/ fuel = 0 THEN FALSE
    ELSE k = m \/ DependsOn(S, Owner(S, S.pj[k]), m, fuel - 1)

\* parent_joint.set(j): the module is hung under joint j of another module
\* or of the host skeleton (spec.md 3: a dependency on another module's
\* deform joint); the rig keeps the modules a hierarchy, so j is not below
\* the module itself.
SetParentJoint(m, j) ==
    /\ kind[m] # "none"
    /\ j \in exists
    /\ j # parent_joint[m]
    /\ ~DependsOn(Cur, Owner(Cur, j), m, NumModules)
    /\ edits < MaxEdits
    /\ edits' = edits + 1
    /\ Install([Cur EXCEPT !.pj[m] = j], "edit", None)

\* m.update()
Update(m) ==
    /\ kind[m] # "none"
    /\ Install(ModuleUpdate(Cur, m, MaxDepth), "update", m)
    /\ UNCHANGED edits

\* m.update_parent_joint()
UpdateParentJoint(m) ==
    /\ kind[m] # "none"
    /\ Install(UpdateParentJointOf(Cur, m), "update_parent_joint", m)
    /\ UNCHANGED edits

Next ==
    \/ \E m \in Modules, k \in {"Chain", "Corrective"}, p \in Nodes \cup {None},
          n \in 1..MaxLen : AddModule(m, k, p, n)
    \/ \E m \in Modules, v \in 0..MaxLen : SetLength(m, v)
    \/ \E m \in Modules, j \in Nodes : SetParentJoint(m, j)
    \/ \E m \in Modules : Update(m)
    \/ \E m \in Modules : UpdateParentJoint(m)

Spec == Init /\ [][Next]_vars

\* ------------------------------------------------------ building the rig
\* vector_base.set(j): the artist names a joint of the scene
SetVectorBase(m, j) ==
    /\ kind[m] = "Corrective"
    /\ j \in exists
    /\ j # vector_base[m]
    /\ edits < MaxEdits
    /\ edits' = edits + 1
    /\ Install([Cur EXCEPT !.vector_base[m] = j], "edit", None)

\* vector_tip.set(j): the artist names a joint of the scene
SetVectorTip(m, j) ==
    /\ kind[m] = "Corrective"
    /\ j \in exists
    /\ j # vector_tip[m]
    /\ edits < MaxEdits
    /\ edits' = edits + 1
    /\ Install([Cur EXCEPT !.vector_tip[m] = j], "edit", None)

\* m.create_locators(), the public method called on its own: no build() is
\* counted, and vector_base is read as it stands.  Every call adds a local
\* space to the scene; the model makes the call while the scene holds fewer
\* than MaxLocatorSets of them.
CreateLocators(m) ==
    /\ kind[m] = "Corrective"
    /\ Cardinality({x \in network : x.role = "vectorsLocalSpace"})
          < MaxLocatorSets
    /\ Install(create_locators(Enter(Cur, "create-locators", None), m),
               "create_locators", m)
    /\ UNCHANGED edits

\* m.build()
Build(m) ==
    /\ kind[m] # "none"
    /\ builds < MaxBuilds
    /\ Install(ModuleBuild(Cur, m), "build", m)
    /\ UNCHANGED edits

\* A rig as the creation of its modules leaves it: a Chain of n1 joints
\* under the host joint, and a Corrective of n2 joints under p.
RigOf(n1, p, n2) ==
    LET Empty == [kind |-> [m \in Modules |-> "none"],
                  length |-> [m \in Modules |-> DefaultValue],
                  joints |-> [m \in Modules |-> <<>>],
                  pj |-> [m \in Modules |-> None],
                  exists |-> {HostJoint},
                  parent |-> [n \in Nodes |-> None],
                  made |-> [m \in Modules |-> 0],
                  vector_base |-> [m \in Modules |-> None],
                  vector_tip |-> [m \in Modules |-> None],
                  vector_base_loc |-> [m \in Modules |-> NoNode],
                  vector_tip_loc |-> [m \in Modules |-> NoNode],
                  orig_pose_vector_tip_loc |-> [m \in Modules |-> NoNode],
                  node_mult |-> [m \in Modules |-> NoNode],
                  network |-> {}, builds |-> 0, dag |-> {},
                  constraints |-> {},
                  trace |-> <<>>, log |-> <<>>, err |-> NoError,
                  overflow |-> FALSE]
        S1 == Initialize([Empty EXCEPT !.kind[1] = "Chain",
                                       !.pj[1] = HostJoint,
                                       !.length[1] = n1], 1)
    IN Initialize([S1 EXCEPT !.kind[2] = "Corrective", !.pj[2] = p,
                             !.length[2] = n2], 2)

InitBuild ==
    \E n1 \in 1..MaxLen, n2 \in 1..MaxLen, p \in Nodes \cup {None} :
        LET S == RigOf(n1, p, n2)
        IN /\ p \in {None, HostJoint} \cup SeqSet(S.joints[1])
           /\ ~Halted(S)
           /\ kind = S.kind
           /\ length = S.length
           /\ joints = S.joints
           /\ parent_joint = S.pj
           /\ exists = S.exists
           /\ parent = S.parent
           /\ made = S.made
           /\ edits = 0
           /\ vector_base = S.vector_base
           /\ vector_tip = S.vector_tip
           /\ vector_base_loc = S.vector_base_loc
           /\ vector_tip_loc = S.vector_tip_loc
           /\ orig_pose_vector_tip_loc = S.orig_pose_vector_tip_loc
           /\ node_mult = S.node_mult
           /\ network = S.network
           /\ builds = S.builds
           /\ dag = S.dag
           /\ constraints = S.constraints
           /\ value_range = [Y |-> 0, Z |-> 0]
           /\ ctl = [offsetPositive |-> <<0, 0, 0>>,
                     offsetNegative |-> <<0, 0, 0>>,
                     affectedBy |-> EnumY, translate |-> <<0, 0, 0>>]
           /\ last = [op |-> "init", m |-> None, err |-> NoError,
                      events |-> {}, calls |-> 0]

NextBuild ==
    \/ \E m \in Modules, j \in Nodes :
          kind[m] = "Corrective" /\ SetParentJoint(m, j)
    \/ \E m \in Modules, j \in Nodes : SetVectorBase(m, j)
    \/ \E m \in Modules, j \in Nodes : SetVectorTip(m, j)
    \/ \E m \in Modules : CreateLocators(m)
    \/ \E m \in Modules : Build(m)

\* A rig is configured and built; no module is added and no length field is
\* changed.  The parent_joint a build() reads is the one of a Corrective.
SpecBuild == InitBuild /\ [][NextBuild]_vars


\* ------------------------------------------------ driving a built control
\* The variables of the rig and of the scene graph of joints.
rigvars == <<kind, length, joints, parent_joint, exists, parent, made, edits,
             vector_base, vector_tip, vector_base_loc, vector_tip_loc,
             orig_pose_vector_tip_loc, node_mult, network, builds, dag,
             constraints, last>>

Signals == (0 - MaxSignal)..MaxSignal
OffsetValues == {0 - MaxOffset, 0, MaxOffset}
Offsets == OffsetValues \X OffsetValues \X OffsetValues

\* The pose changes: the angle reader puts out a new signal.
SetSignal(y, z) ==
    /\ value_range' = [Y |-> y, Z |-> z]
    /\ value_range' # value_range
    /\ ctl' = Evaluate(value_range', ctl)
    /\ UNCHANGED rigvars

\* The rigger sets offsetPositiveX, Y, Z of the control.
SetOffsetPositive(pos) ==
    /\ pos # ctl.offsetPositive
    /\ ctl' = Evaluate(value_range, [ctl EXCEPT !.offsetPositive = pos])
    /\ UNCHANGED <<value_range, rigvars>>

\* The rigger sets offsetNegativeX, Y, Z of the control.
SetOffsetNegative(neg) ==
    /\ neg # ctl.offsetNegative
    /\ ctl' = Evaluate(value_range, [ctl EXCEPT !.offsetNegative = neg])
    /\ UNCHANGED <<value_range, rigvars>>

\* The rigger sets affectedBy.
SetAffectedBy(a) ==
    /\ a # ctl.affectedBy
    /\ ctl' = Evaluate(value_range, [ctl EXCEPT !.affectedBy = a])
    /\ UNCHANGED <<value_range, rigvars>>

NextWire ==
    \/ \E y \in Signals, z \in Signals : SetSignal(y, z)
    \/ \E pos \in Offsets : SetOffsetPositive(pos)
    \/ \E neg \in Offsets : SetOffsetNegative(neg)
    \/ \E a \in {EnumY, EnumZ} : SetAffectedBy(a)

\* The offset network of one control, driven by the signal and the
\* attributes of the control.
SpecWire == Init /\ [][NextWire]_vars

\* ------------------------------------------------- what the claims speak of
\* m.update() called in the current state: the state it leaves, its events.
UpdateOf(m) == ModuleUpdate(Cur, m, MaxDepth)

\* The call returned normally (and within the joints the model may create).
Completed(R) == ~Failed(R) /\ ~R.overflow

\* The state a call left, as the state the next call starts in.
Again(R) == [R EXCEPT !.trace = <<>>, !.err = NoError]

Created(m) == kind[m] # "none"

\* The events of a call that change the scene graph or a field.
Mutations(trace) ==
    {i \in 1..Len(trace) :
       trace[i].type \in {"create", "delete", "reparent", "set_parent_joint"}}

\* The joints a shrink of module m to its length field removes.
Doomed(m) ==
    IF length[m] < Len(joints[m])
    THEN SeqSet(Suffix(joints[m], length[m] - Len(joints[m])))
    ELSE {}

\* ----------------------------------------------------------------- C1
\* C1 (as claimed): after update() of a Chain with chain_length = N returns,
\* the owned list has N joints, the first joint's scene parent is the
\* module's parent_joint and every other joint's scene parent is the joint
\* before it in the list.
C1_ChainShapeAfterUpdate ==
    \A m \in Modules :
        kind[m] = "Chain" =>
            LET R == UpdateOf(m)
                js == R.joints[m]
            IN Completed(R) =>
                /\ Len(js) = length[m]
                /\ R.parent[js[1]] = R.pj[m]
                /\ \A i \in 2..Len(js) : R.parent[js[i]] = js[i - 1]

\* ----------------------------------------------------------------- C2
\* C2: update() is idempotent for Chain and Corrective: right after an
\* update() that returned, a second update() of the same module creates,
\* deletes and reparents nothing, writes no parent_joint, and leaves the
\* rig and the scene as they were.
C2_UpdateIdempotent ==
    \A m \in Modules :
        Created(m) =>
            LET R1 == UpdateOf(m)
            IN Completed(R1) =>
                LET R2 == ModuleUpdate(Again(R1), m, MaxDepth)
                IN /\ ~R2.overflow
                   /\ Mutations(R2.trace) = {}
                   /\ Snap(R2) = Snap(R1)

\* A growth or a shrink just happened, and the module is now stable.
C2_Witness ==
    /\ last.op = "update"
    /\ last.err = NoError
    /\ last.events \cap {"create", "delete"} # {}
    /\ kind[last.m] = "Corrective"
    /\ Mutations(UpdateOf(last.m).trace) = {}

\* ----------------------------------------------------------------- C3
\* C3: when a Corrective A with joint_count lowered to n (1 <= n < joints
\* owned) is updated and the call returns, every other module whose
\* parent_joint was one of the joints removed has A's joint n (the last
\* survivor) as parent_joint, and the removed joints are out of the scene.
C3_CascadeResult ==
    \A a \in Modules :
        (kind[a] = "Corrective" /\ Doomed(a) # {}) =>
            LET R == UpdateOf(a)
            IN Completed(R) =>
                /\ \A b \in Modules \ {a} :
                      (Created(b) /\ parent_joint[b] \in Doomed(a)) =>
                          R.pj[b] = joints[a][length[a]]
                /\ Doomed(a) \cap R.exists = {}

\* A Corrective shrink with a cascade has just run: a dependent now hangs
\* under the last joint of the module that shrank.
C3_Witness ==
    /\ last.op = "update"
    /\ last.err = NoError
    /\ {"set_parent_joint", "delete"} \subseteq last.events
    /\ kind[last.m] = "Corrective"
    /\ \E b \in Modules \ {last.m} :
          Created(b) /\ parent_joint[b] = Last(joints[last.m])


\* ----------------------------------------------------------------- C4
\* No parent_joint field refers to a joint that is out of the scene.
NoDangling(st) ==
    \A k \in Modules : st.pj[k] \in st.exists \cup {None}

\* C4 (as claimed): in every intermediate state of a Corrective.update()
\* that started with no dangling parent_joint, no module's parent_joint
\* refers to a joint that is absent from the scene graph.
C4_NoDanglingDuringUpdate ==
    \A a \in Modules :
        (kind[a] = "Corrective" /\ NoDangling(Snap(Cur))) =>
            LET R == UpdateOf(a)
            IN \A i \in 1..Len(R.trace) : NoDangling(R.trace[i].st)

\* ----------------------------------------------------------------- C5
\* C5 (as claimed): when a Corrective.update() deletes joints, every other
\* module B whose parent_joint was one of them is repaired by then: B's
\* first joint is under B's parent_joint, and no joint of B is under a
\* joint being deleted.
C5_DependentsRepaired ==
    \A a \in Modules :
        kind[a] = "Corrective" =>
            LET R == UpdateOf(a)
            IN \A i \in 2..Len(R.trace) :
                  (R.trace[i].type = "delete"
                   /\ kind[R.trace[i].m] = "Corrective") =>
                      LET before == R.trace[i - 1].st
                          gone == R.trace[i].nodes
                      IN \A b \in Modules \ {R.trace[i].m} :
                            (Created(b) /\ parent_joint[b] \in gone) =>
                                /\ before.parent[before.joints[b][1]]
                                      = before.pj[b]
                                /\ \A x \in 1..Len(before.joints[b]) :
                                      before.parent[before.joints[b][x]]
                                          \notin gone

\* ----------------------------------------------------------------- C6
\* C6 (as claimed): a Chain keeps at least one joint after any sequence of
\* sets and updates: chain_length set to its minimum 1 and update() leave
\* exactly the first joint, in the scene; a write of a chain_length below 1
\* raises ValidationError and changes neither the field, nor the owned
\* lists, nor the scene.
C6_ChainLengthBoundary ==
    \A m \in Modules :
        kind[m] = "Chain" =>
            /\ Len(joints[m]) >= 1
            /\ length[m] >= MinValue
            /\ LET R == ModuleUpdate(LengthSet(Cur, m, MinValue), m, MaxDepth)
               IN Completed(R) =>
                     /\ R.joints[m] = <<joints[m][1]>>
                     /\ joints[m][1] \in R.exists
            /\ \A v \in 0..(MinValue - 1) :
                  LET W == LengthSet(Cur, m, v)
                  IN /\ W.err = "ValidationError"
                     /\ Snap(W) = Snap(Cur)

\* ----------------------------------------------------------------- C7
\* C7: every joint of an owned list is in the scene; an update() of a Chain
\* or Corrective whose length field N is under its joint count leaves the
\* first N joints of its list, in their order, and the others are out of
\* the scene.
C7_ShrinkKeepsPrefix ==
    \A m \in Modules :
        Created(m) =>
            /\ SeqSet(joints[m]) \subseteq exists
            /\ Doomed(m) # {} =>
                  LET R == UpdateOf(m)
                  IN Completed(R) =>
                        /\ R.joints[m] = Prefix(joints[m], length[m])
                        /\ SeqSet(R.joints[m]) \subseteq R.exists
                        /\ Doomed(m) \cap R.exists = {}

\* A shrink has just run.
C7_Witness ==
    /\ last.op = "update"
    /\ last.err = NoError
    /\ "delete" \in last.events
    /\ made[last.m] > Len(joints[last.m])
    /\ Len(joints[last.m]) = length[last.m]

\* ----------------------------------------------------------------- C8
\* C8: Chain.update() writes no parent_joint and calls no other update();
\* a module whose parent_joint is a joint the Chain shrink deletes keeps
\* that reference, which then refers to nothing in the scene.
C8_ChainDoesNotCascade ==
    \A m \in Modules :
        kind[m] = "Chain" =>
            LET R == UpdateOf(m)
            IN /\ R.pj = parent_joint
               /\ \A i \in 1..Len(R.trace) :
                     /\ R.trace[i].type # "set_parent_joint"
                     /\ R.trace[i].type = "call" => i = 1
               /\ Completed(R) =>
                     \A k \in Modules :
                        parent_joint[k] \in Doomed(m) =>
                            /\ R.pj[k] = parent_joint[k]
                            /\ R.pj[k] \notin R.exists

\* A Chain shrink has just left another module's parent_joint dangling.
C8_Witness ==
    /\ last.op = "update"
    /\ last.err = NoError
    /\ kind[last.m] = "Chain"
    /\ "delete" \in last.events
    /\ \E k \in Modules \ {last.m} :
          /\ Created(k)
          /\ parent_joint[k] # None
          /\ parent_joint[k] \notin exists

\* ----------------------------------------------------------------- C9
\* The joints a call reparented.
Reparented(trace) ==
    {trace[i].node : i \in {x \in 1..Len(trace) : trace[x].type = "reparent"}}

\* C9: Corrective.update_parent_joint(), when it returns, has reparented
\* exactly the owned joints whose scene parent differed from parent_joint
\* (first or not), every owned joint is then under parent_joint, and a
\* second call reparents nothing.
C9_CorrectiveReparentsAll ==
    \A m \in Modules :
        kind[m] = "Corrective" =>
            LET R == CorrectiveUpdateParentJoint(Cur, m)
            IN Completed(R) =>
                  /\ \A i \in 1..Len(joints[m]) :
                        R.parent[joints[m][i]] = parent_joint[m]
                  /\ Reparented(R.trace) =
                        {j \in SeqSet(joints[m]) : parent[j] # parent_joint[m]}
                  /\ Reparented(CorrectiveUpdateParentJoint(Again(R), m).trace)
                        = {}

\* update_parent_joint() has just moved the joints of a Corrective of two
\* joints or more under its parent_joint.
C9_Witness ==
    /\ last.op = "update_parent_joint"
    /\ last.err = NoError
    /\ "reparent" \in last.events
    /\ kind[last.m] = "Corrective"
    /\ Len(joints[last.m]) >= 2
    /\ \A i \in 1..Len(joints[last.m]) :
          parent[joints[last.m][i]] = parent_joint[last.m]


\* ---------------------------------------------------------------- C10
\* m.build() called in the current state.
BuildOf(m) == CorrectiveBuild(Cur, m)

\* The steps a build() entered, in order.
StepsOf(log) == SelectSeq(log, LAMBDA e : e.kind = "step")

RECURSIVE JointSteps(_, _)
\* The steps of the driving joints js[i..]: control, then offsets, of each.
JointSteps(js, i) ==
    IF i > Len(js) THEN <<>>
    ELSE <<[step |-> "create-control", of |-> js[i]],
           [step |-> "wire-offsets", of |-> js[i]]>> \o JointSteps(js, i + 1)

\* The fixed order of the steps of a build() of module m.
ExpectedSteps(m) ==
    <<[step |-> "ensure-vector-base", of |-> None],
      [step |-> "create-locators", of |-> None],
      [step |-> "build-angle-reader", of |-> None]>> \o JointSteps(joints[m], 1)

\* The steps a call entered are the first steps of the fixed order, and all
\* of them when the call returned.
InFixedOrder(R, m) ==
    LET got == StepsOf(R.log)
        want == ExpectedSteps(m)
    IN /\ Len(got) <= Len(want)
       /\ \A i \in 1..Len(got) :
             got[i].step = want[i].step /\ got[i].of = want[i].of
       /\ Completed(R) => Len(got) = Len(want)

\* The step of build() that is to write a reference before it is read.
WriterStep(field) ==
    IF field = "vector_base" THEN "ensure-vector-base"
    ELSE IF field = "node_mult" THEN "build-angle-reader"
    ELSE "create-locators"

\* C10 (as claimed): build() of a Corrective runs its steps in the fixed
\* order, and every reference a step reads (vector_base, the three locator
\* references, the angle-times-axis node) was written by the earlier step
\* of the same call that is to write it, and is set.
C10_ReadsWrittenInSameBuild ==
    \A m \in Modules :
        kind[m] = "Corrective" =>
            LET R == BuildOf(m)
            IN /\ InFixedOrder(R, m)
               /\ \A i \in 1..Len(R.log) :
                     (R.log[i].kind = "read"
                      /\ R.log[i].field # "vector_tip") =>
                         /\ R.log[i].from = WriterStep(R.log[i].field)
                         /\ ~R.log[i].unset

\* C10 (amended): build() of a Corrective runs its steps in the fixed order;
\* the locator references the angle reader reads and the angle-times-axis
\* node the control creation reads are set and were written by
\* create_locators and by the angle reader of the same call; vector_base, as
\* create_locators reads it, was written by the ensure step of the same call
\* exactly when it was unset when build() began, and is otherwise the value
\* it had then; it is read unset only when parent_joint is unset too, and
\* the call then fails before a locator reference is written.  vector_tip
\* is written by no step: create_locators reads it as it stood.
C10_BuildOrderAndReads ==
    \A m \in Modules :
        kind[m] = "Corrective" =>
            LET R == BuildOf(m)
            IN /\ InFixedOrder(R, m)
               /\ \A i \in 1..Len(R.log) :
                     R.log[i].kind = "read" =>
                         IF R.log[i].field = "vector_base"
                         THEN /\ R.log[i].step = "create-locators"
                              /\ (R.log[i].from = "ensure-vector-base")
                                    <=> (vector_base[m] = None)
                              /\ R.log[i].from \in {"ensure-vector-base", "none"}
                              /\ R.log[i].unset <=>
                                    (vector_base[m] = None
                                     /\ parent_joint[m] = None)
                              /\ R.log[i].unset =>
                                    /\ Failed(R)
                                    /\ R.vector_base_loc = vector_base_loc
                                    /\ R.vector_tip_loc = vector_tip_loc
                                    /\ R.orig_pose_vector_tip_loc
                                          = orig_pose_vector_tip_loc
                         ELSE IF R.log[i].field = "vector_tip"
                         THEN /\ R.log[i].step = "create-locators"
                              /\ R.log[i].from = "none"
                              /\ R.log[i].unset <=> (vector_tip[m] = None)
                         ELSE /\ R.log[i].from = WriterStep(R.log[i].field)
                              /\ ~R.log[i].unset
               /\ R.vector_tip = vector_tip
               /\ vector_base[m] # None => R.vector_base[m] = vector_base[m]
               /\ vector_base[m] = None => R.vector_base[m] = parent_joint[m]

\* A second build() has returned that read the vector_base a build() before
\* it had set, no longer the parent_joint, and made the control of a joint.
C10_Witness ==
    /\ last.op = "build"
    /\ last.err = NoError
    /\ builds >= 2
    /\ "vector_base" \notin last.events
    /\ {"create-locators", "build-angle-reader", "create-control",
        "wire-offsets", "node_mult", "vector_base_loc"} \subseteq last.events
    /\ vector_base[last.m] # parent_joint[last.m]
    /\ vector_base_loc[last.m].build = builds
    /\ node_mult[last.m].build = builds


\* ---------------------------------------------------------------- C11
\* The position in the log of the first write of a reference (0: none).
FirstWrite(log, field) ==
    LET W == {i \in 1..Len(log) :
                 log[i].kind = "write" /\ log[i].field = field}
    IN IF W = {} THEN 0 ELSE CHOOSE i \in W : \A k \in W : i <= k

\* C11 (as claimed): build() of a Corrective with vector_base unset and
\* parent_joint set writes parent_joint to vector_base before it writes a
\* locator reference; a vector_base that is set is left as it is; with
\* vector_base and parent_joint both unset the call fails with
\* MissingReferenceError and has created no node.
C11_VectorBaseResolution ==
    \A m \in Modules :
        kind[m] = "Corrective" =>
            LET R == BuildOf(m)
            IN /\ (vector_base[m] = None /\ parent_joint[m] # None) =>
                     /\ R.vector_base[m] = parent_joint[m]
                     /\ FirstWrite(R.log, "vector_base") > 0
                     /\ \A i \in 1..Len(R.log) :
                           (R.log[i].kind = "write"
                            /\ R.log[i].field # "vector_base") =>
                               FirstWrite(R.log, "vector_base") < i
               /\ vector_base[m] # None =>
                     /\ R.vector_base[m] = vector_base[m]
                     /\ FirstWrite(R.log, "vector_base") = 0
               /\ (vector_base[m] = None /\ parent_joint[m] = None) =>
                     /\ R.err = "MissingReferenceError"
                     /\ R.network = network


\* ---------------------------------------------------------------- C12
\* candidate(a) of the claim: v_a * offsetPositive when v_a >= 0, and
\* (-v_a) * offsetNegative otherwise, on each of X, Y, Z.
Candidate(a) ==
    LET v == value_range[a]
        off == IF v >= 0 THEN ctl.offsetPositive ELSE ctl.offsetNegative
        mag == IF v >= 0 THEN v ELSE 0 - v
    IN <<mag * off[1], mag * off[2], mag * off[3]>>

\* C12: the translate driven onto the control is the candidate of the axis
\* affectedBy names: the one of Y for affectedBy = Y, the one of Z for
\* affectedBy = Z.
C12_OffsetSelection ==
    /\ ctl.affectedBy \in {EnumY, EnumZ}
    /\ ctl.affectedBy = EnumY => ctl.translate = Candidate("Y")
    /\ ctl.affectedBy = EnumZ => ctl.translate = Candidate("Z")

\* The control follows a negative Z signal through offsetNegative, where
\* the candidate of Y and the positive offset would give something else.
C12_Witness ==
    /\ ctl.affectedBy = EnumZ
    /\ value_range.Z < 0
    /\ value_range.Y > 0
    /\ ctl.translate # <<0, 0, 0>>
    /\ ctl.translate # Candidate("Y")
    /\ ctl.translate[1] = (0 - value_range.Z) * ctl.offsetNegative[1]
    /\ ctl.offsetPositive[1] # ctl.offsetNegative[1]


\* ---------------------------------------------------------------- C13
\* The control and the buffer that a build() called now makes for joint j
\* of module m.
CtlOf(m, j) ==
    [role |-> "ctl", m |-> m, of |-> j, build |-> builds + 1, copy |-> 0]

BufferOf(m, j) ==
    [role |-> "buffer", m |-> m, of |-> j, build |-> builds + 1, copy |-> 0]

\* C13: build() of a Chain of n driving joints makes n controls, one per
\* joint and in the order of the chain; the control of the first joint is
\* in its buffer under the controls container, the control of a later
\* joint is in its buffer under the control of the joint before it, and
\* each control constrains its own joint and no other.
C13_ChainBuildHierarchy ==
    \A m \in Modules :
        kind[m] = "Chain" =>
            LET R == ChainBuild(Cur, m)
                js == joints[m]
                made_steps == StepsOf(R.log)
            IN /\ Completed(R)
               /\ {x \in R.network \ network : x.role = "ctl"}
                     = {CtlOf(m, js[i]) : i \in 1..Len(js)}
               /\ Cardinality({x \in R.network \ network : x.role = "ctl"})
                     = Len(js)
               /\ Len(made_steps) = Len(js)
               /\ \A i \in 1..Len(js) :
                     /\ made_steps[i].step = "create-control"
                     /\ made_steps[i].of = js[i]
                     /\ DagParent(R.dag, CtlOf(m, js[i])) = BufferOf(m, js[i])
                     /\ DagParent(R.dag, BufferOf(m, js[i])) =
                           IF i = 1 THEN ControlsGroup(m)
                           ELSE CtlOf(m, js[i - 1])
               /\ R.constraints \ constraints
                     = {<<CtlOf(m, js[i]), JointNode(js[i])>> :
                           i \in 1..Len(js)}

\* A Chain of two joints or more has been built: the control of its second
\* joint is in a buffer under the control of its first.
C13_Witness ==
    /\ last.op = "build"
    /\ last.err = NoError
    /\ kind[last.m] = "Chain"
    /\ Len(joints[last.m]) >= 2
    /\ \E e \in dag :
          /\ e[1].role = "buffer"
          /\ e[1].of = joints[last.m][2]
          /\ e[2].role = "ctl"
          /\ e[2].of = joints[last.m][1]
    /\ \E e \in constraints : e[2] = JointNode(joints[last.m][2])


\* ---------------------------------------------------------------- C14
\* The state before event i of a call made in the current state.
Before(R, i) == IF i = 1 THEN Snap(Cur) ELSE R.trace[i - 1].st

\* The joints a shrink of module c removes, in a state of a call.
DoomedIn(st, c) ==
    IF st.length[c] < Len(st.joints[c])
    THEN SeqSet(Suffix(st.joints[c], st.length[c] - Len(st.joints[c])))
    ELSE {}

\* C14: every stored joint_count is 1 or more, and every parent_joint a
\* Corrective.update() writes is the last surviving joint of a shrinking
\* Corrective, a joint that module owns: never that module's own
\* parent_joint, the value of the branch taken when no joint survives.
C14_FallbackUnreachable ==
    /\ \A m \in Modules : length[m] >= MinValue
    /\ \A a \in Modules :
          kind[a] = "Corrective" =>
              LET R == UpdateOf(a)
              IN \A i \in 1..Len(R.trace) :
                    R.trace[i].type = "set_parent_joint" =>
                        \E c \in Modules :
                            LET st == Before(R, i)
                            IN /\ kind[c] = "Corrective"
                               /\ DoomedIn(st, c) # {}
                               /\ st.length[c] >= 1
                               /\ R.trace[i].to = st.joints[c][st.length[c]]
                               /\ R.trace[i].to # st.pj[c]

\* A Corrective has shrunk to its minimum of one joint, and a dependent was
\* redirected to that joint.
C14_Witness ==
    /\ last.op = "update"
    /\ last.err = NoError
    /\ {"set_parent_joint", "delete"} \subseteq last.events
    /\ kind[last.m] = "Corrective"
    /\ length[last.m] = MinValue
    /\ joints[last.m] # <<>>
    /\ Len(joints[last.m]) = MinValue
    /\ \E b \in Modules \ {last.m} : parent_joint[b] = joints[last.m][1]

\* ---------------------------------------------------------------- C15
\* The update() calls of module k a call entered.
CallsOf(trace, k) ==
    Cardinality({i \in 1..Len(trace) :
                    trace[i].type = "call" /\ trace[i].m = k})

\* C15: Corrective.update() comes to an end within the nesting the modules
\* of the rig allow; every nested update() follows the redirection of the
\* module it is called on, and no module's update() is entered twice.
C15_CascadeTerminates ==
    \A a \in Modules :
        kind[a] = "Corrective" =>
            LET R == UpdateOf(a)
            IN /\ R.err # "RecursionError"
               /\ \A k \in Modules : CallsOf(R.trace, k) <= 1
               /\ Calls(R.trace) <= NumModules
               /\ \A i \in 2..Len(R.trace) :
                     R.trace[i].type = "call" =>
                         /\ R.trace[i - 1].type = "set_parent_joint"
                         /\ R.trace[i - 1].m = R.trace[i].m
                         /\ R.trace[i].m # a

\* A cascade of two nested update() calls has come to its end.
C15_Witness ==
    /\ last.op = "update"
    /\ last.err = NoError
    /\ kind[last.m] = "Corrective"
    /\ "delete" \in last.events
    /\ last.calls >= 3

\* ---------------------------------------------------------------- C16
\* C16: a Corrective.update() writes the parent_joint of a module, and
\* calls its update(), only when that parent_joint is one of the joints a
\* shrinking Corrective, another module, is about to delete; every other
\* module keeps its parent_joint; a call that grows the module or finds its
\* joint count right writes no parent_joint and calls no update().
C16_OnlyTrueDependents ==
    \A a \in Modules :
        kind[a] = "Corrective" =>
            LET R == UpdateOf(a)
                touched == {R.trace[i].m :
                              i \in {x \in 1..Len(R.trace) :
                                       R.trace[x].type = "set_parent_joint"}}
                entered == {R.trace[i].m :
                              i \in {x \in 2..Len(R.trace) :
                                       R.trace[x].type = "call"}}
            IN /\ \A i \in 1..Len(R.trace) :
                     R.trace[i].type = "set_parent_joint" =>
                         \E c \in Modules \ {R.trace[i].m} :
                             /\ kind[c] = "Corrective"
                             /\ Before(R, i).pj[R.trace[i].m]
                                   \in DoomedIn(Before(R, i), c)
               /\ entered \subseteq touched
               /\ a \notin touched
               /\ \A k \in Modules \ touched : R.pj[k] = parent_joint[k]
               /\ \A k \in Modules :
                     (parent_joint[k] \in exists
                      /\ \A c \in Modules : parent_joint[k] \notin Doomed(c))
                         => k \notin touched \cup entered
               /\ Doomed(a) = {} => (touched = {} /\ entered = {}
                                     /\ R.pj = parent_joint)

\* A shrink has redirected one module and left alone another that hangs
\* under the surviving joint of the same Corrective.
C16_Witness ==
    /\ last.op = "update"
    /\ last.err = NoError
    /\ kind[last.m] = "Corrective"
    /\ {"set_parent_joint", "delete"} \subseteq last.events
    /\ last.calls = 2
    /\ joints[last.m] # <<>>
    /\ Cardinality({k \in Modules \ {last.m} :
                       parent_joint[k] = Last(joints[last.m])}) >= 2

====
